---------------------------- MODULE Spec2Model ----------------------------
(***************************************************************************)
(* CS2 allocators (compiler/cs2/allocator.h): malloc_allocator,            *)
(* shared_allocator and arena_allocator, as a state machine.               *)
(*                                                                         *)
(* Memory is a sequence of blocks handed out by malloc; an address is a    *)
(* pair [blk, off]: a block and a byte offset from the start of the block  *)
(* (blk = 0 is the null pointer).  size_t and pointer arithmetic is taken  *)
(* modulo 2^SizeBits.  A byte of memory is either marked (written by the   *)
(* caller) or as malloc left it.                                           *)
(***************************************************************************)
EXTENDS Integers, Sequences, FiniteSets, TLC

\* sizeof(size_t): the alignment unit of arena_allocator::allocate
WordSize == 4
\* sizeof(Segment): a next pointer and a size_t
HeaderSize == 8
\* the template parameter segmentsize of arena_allocator
segmentsize == 64
\* width in bits of size_t and of a pointer, scaled down from 32
SizeBits == 11
\* number of arena_allocator instances
NumArenas == 2
\* number of shared_allocator handles
NumHandles == 3
\* number of calls made on the allocators
MaxCalls == 3
\* number of calls made through shared_allocator handles
MaxSharedCalls == 3
\* number of calls made when a segment is filled
MaxFillCalls == 4
\* number of regions the caller writes to
MaxWrites == 1

SizeMod == 2 ^ SizeBits
SizeMax == SizeMod - 1
Arenas == 1 .. NumArenas
Handles == 1 .. NumHandles

VARIABLES
  heap,       \* blocks obtained from malloc: [bytes, live, next, size]
  mlog,       \* calls made to the backing allocator, in order
  segment,    \* per arena: the head Segment (0 = NULL)
  allocated,  \* per arena: the cursor into the head segment
  status,     \* per arena: "live" or "destroyed"
  marked,     \* memory contents: the set of bytes <<blk, off>> the caller wrote
  base,       \* per shared_allocator handle: the arena it references
  ctor,       \* per handle: the arena it was constructed over
  hist,       \* the calls made so far, each with its arguments, result and effect
  owned,      \* indices of hist whose returned region the caller still holds
  nwrites,    \* number of caller writes so far
  fault       \* the process was stopped by a trap

vars == <<heap, mlog, segment, allocated, status, marked, base, ctor, hist,
          owned, nwrites, fault>>

NULL == [blk |-> 0, off |-> 0]

\* arena_allocator::arena_size
arena_size == segmentsize - HeaderSize

\* the sizes the callers request
Sizes == {0, 3, arena_size, 1000, SizeMax - 5, SizeMax}
\* the sizes the callers grow or shrink a region to
NewSizes == {3, 1000}
\* the sizes requested when a segment is filled
FillSizes == {3, 16, 40, SizeMax - 5}
\* the sizes requested from the arenas that are assigned to one another
AssignSizes == {3, 1000}
\* the sizes requested through shared_allocator handles
SharedSizes == {3, arena_size}

\* line 114: size rounded up to a multiple of sizeof(size_t), in size_t arithmetic
RoundNone(size) == size
RoundDown(size) == (size \div WordSize) * WordSize
RoundUp(size) ==
  IF size % WordSize # 0 THEN ((size \div WordSize + 1) * WordSize) % SizeMod
  ELSE size

\* line 117: the request gets a dedicated segment
IsLargeStrict(seg, size) == seg # 0 /\ size > arena_size
IsLarge(seg, size) == seg # 0 /\ size >= arena_size

\* line 118: the bytes requested for a dedicated segment, in size_t arithmetic
LargeRequestNoHeader(size) == size
LargeRequest(size) == (HeaderSize + size) % SizeMod

\* line 124: the request starts a new head segment
NeedsNewHeadEager(seg, alloc, size) ==
  seg = 0 \/ (alloc + size) % SizeMod >= arena_size
NeedsNewHead(seg, alloc, size) ==
  seg = 0 \/ (alloc + size) % SizeMod > arena_size

\* line 135: allocated += size
BumpCursorAssign(alloc, size) == size
BumpCursor(alloc, size) == (alloc + size) % SizeMod

\* the segment chain from s, following the next links
RECURSIVE Chain(_, _)
Chain(hp, s) == IF s = 0 THEN <<>> ELSE <<s>> \o Chain(hp, hp[s].next)

\* the part of the state one arena's call reads and writes
View(a) == [segment |-> segment[a], allocated |-> allocated[a], heap |-> heap,
            mlog |-> mlog, marked |-> marked]

\* malloc_allocator::allocate: a fresh block of n bytes, or NULL when ok is FALSE
Malloc(hp, n, ok) == IF ok THEN Len(hp) + 1 ELSE 0

\* lines 120-121: the head after a dedicated segment was linked in
HeadAfterSplicePushed(seg, new_segment) == new_segment
HeadAfterSplice(seg, new_segment) == seg

\* the block record of a segment whose header fields were stored
NewBlockUnlinked(n, sz, nx) == [bytes |-> n, live |-> TRUE, size |-> sz, next |-> 0]
NewBlockNominal(n, sz, nx) == [bytes |-> n, live |-> TRUE, size |-> segmentsize, next |-> nx]
NewBlock(n, sz, nx) == [bytes |-> n, live |-> TRUE, size |-> sz, next |-> nx]

\* arena_allocator::allocate on view v of arena a; ok: malloc succeeds.
\* ub: a header field was stored outside the block malloc returned.
allocate(v, a, sz, ok) ==
  LET size == RoundUp(sz)
      seg == v.segment
  IN IF IsLarge(seg, size) THEN
       LET n == LargeRequest(size)
           new_segment == Malloc(v.heap, n, ok)
           linked == [v.heap EXCEPT ![seg].next = new_segment]
       IN [v |-> [v EXCEPT
                    !.heap = IF ok THEN Append(linked, NewBlock(n, n, v.heap[seg].next))
                             ELSE linked,
                    !.mlog = Append(v.mlog, [op |-> "allocate", by |-> a,
                                             blk |-> new_segment, size |-> n]),
                    !.segment = HeadAfterSplice(seg, new_segment)],
           ret |-> [blk |-> new_segment, off |-> HeaderSize],
           path |-> "large",
           ub |-> (~ok \/ n < HeaderSize)]
     ELSE IF NeedsNewHead(seg, v.allocated, size) THEN
       LET new_segment == Malloc(v.heap, segmentsize, ok)
       IN [v |-> [v EXCEPT
                    !.heap = IF ok THEN Append(v.heap, NewBlock(segmentsize, segmentsize, seg))
                             ELSE v.heap,
                    !.mlog = Append(v.mlog, [op |-> "allocate", by |-> a,
                                             blk |-> new_segment, size |-> segmentsize]),
                    !.segment = new_segment,
                    !.allocated = size],
           ret |-> [blk |-> new_segment, off |-> HeaderSize],
           path |-> "head",
           ub |-> ~ok]
     ELSE
       [v |-> [v EXCEPT !.allocated = BumpCursor(v.allocated, size)],
        ret |-> [blk |-> seg, off |-> (HeaderSize + v.allocated) % SizeMod],
        path |-> "bump",
        ub |-> FALSE]


\* [reg, reg + n) lies inside one live block
InBlock(hp, reg, n) ==
  /\ reg.blk \in 1 .. Len(hp)
  /\ hp[reg.blk].live
  /\ reg.off + n <= hp[reg.blk].bytes

\* byte c lies in [reg, reg + n)
Within(c, reg, n) == c[1] = reg.blk /\ c[2] >= reg.off /\ c[2] < reg.off + n

\* two byte ranges share a byte
Overlap(r1, n1, r2, n2) ==
  /\ r1.blk = r2.blk
  /\ r1.off < r2.off + n2
  /\ r2.off < r1.off + n1

\* memcpy(dst, src, n) on the memory contents mk
memcpy(mk, dst, src, n) ==
  {c \in mk : ~Within(c, dst, n)}
    \cup {<<dst.blk, dst.off + (c[2] - src.off)>> : c \in {b \in mk : Within(b, src, n)}}

\* line 145: reallocate hands back the pointer it was given
KeepsPointerStrict(newsize, size) == newsize < size
KeepsPointer(newsize, size) == newsize <= size

\* arena_allocator::reallocate.  ub: memcpy reads or writes outside a block,
\* or its ranges overlap
reallocate(v, a, newsize, pointer, size, ok) ==
  IF KeepsPointer(newsize, size)
  THEN [v |-> v, ret |-> pointer, path |-> "keep", ub |-> FALSE]
  ELSE LET r == allocate(v, a, newsize, ok)
       IN [v |-> [r.v EXCEPT !.marked = memcpy(r.v.marked, r.ret, pointer, size)],
           ret |-> r.ret,
           path |-> r.path,
           ub |-> \/ r.ub
                  \/ /\ size > 0
                     /\ \/ ~InBlock(r.v.heap, r.ret, size)
                        \/ ~InBlock(r.v.heap, pointer, size)
                        \/ Overlap(r.ret, size, pointer, size)]

\* arena_allocator::deallocate: no deallocation
deallocate(v, a, pointer, size) == v

\* line 106: the size the destructor passes to the backing allocator
FreeSizeNominal(hp, s) == segmentsize
FreeSize(hp, s) == hp[s].size

\* arena_allocator::~arena_allocator: the loop from Segment s on
RECURSIVE Release(_, _, _)
Release(v, a, s) ==
  IF s = 0 THEN v
  ELSE LET next == v.heap[s].next
       IN Release([v EXCEPT
                     !.mlog = Append(@, [op |-> "deallocate", by |-> a, blk |-> s,
                                         size |-> FreeSize(v.heap, s)]),
                     !.heap[s].live = FALSE],
                  a, next)

destroy(v, a) == Release(v, a, v.segment)

\* arena_allocator::operator=: neither the chain nor the cursor of a2 is copied
assignCopies(v, v2) == [v EXCEPT !.segment = v2.segment, !.allocated = v2.allocated]
assign(v, v2) == v

\* shared_allocator::operator=: the reference is not reseated
AssignBaseCopies(b, left, right) == [b EXCEPT ![left] = b[right]]
AssignBase(b, left, right) == b

\* shared_allocator operator== and operator!=
Eq(left, right) == base[left] = base[right]
Neq(left, right) == ~Eq(left, right)

-----------------------------------------------------------------------------
\* the record of one call in hist
Entry(h, a, op, sz, i, pointer, oldsize, r, returned, failed) ==
  [via |-> h, arena |-> a, op |-> op, size |-> sz, from |-> i, p |-> pointer,
   oldsize |-> oldsize, ret |-> r.ret, path |-> r.path, returned |-> returned,
   failed |-> failed, pre |-> View(a), post |-> r.v]

Commit(a, r) ==
  /\ segment' = [segment EXCEPT ![a] = r.v.segment]
  /\ allocated' = [allocated EXCEPT ![a] = r.v.allocated]
  /\ heap' = r.v.heap
  /\ mlog' = r.v.mlog
  /\ marked' = r.v.marked

\* A store through new_segment outside the block malloc returned (a null
\* pointer, a block shorter than the header) and a memcpy outside a block are
\* undefined: the call either goes on with its effects made, or it stops at a
\* trap.  At a trap nothing is returned and the process makes no further call;
\* the requests made to the backing allocator stay made.
Trap(h, a, op, sz, i, pointer, oldsize, r, failed) ==
  /\ fault' = TRUE
  /\ mlog' = r.v.mlog
  /\ hist' = Append(hist, Entry(h, a, op, sz, i, pointer, oldsize,
                                [v |-> [View(a) EXCEPT !.mlog = r.v.mlog],
                                 ret |-> NULL, path |-> r.path],
                                FALSE, failed))
  /\ UNCHANGED <<heap, segment, allocated, status, marked, base, ctor, owned, nwrites>>

\* arena a can be called: it was not destroyed and the process runs
Running(a) == ~fault /\ status[a] = "live"
Live(a) == Running(a) /\ Len(hist) < MaxCalls

Init ==
  /\ heap = <<>>
  /\ mlog = <<>>
  /\ segment = [a \in Arenas |-> 0]
  /\ allocated = [a \in Arenas |-> 0]
  /\ status = [a \in Arenas |-> "live"]
  /\ marked = {}
  /\ base = [h \in Handles |-> 0]
  /\ ctor = [h \in Handles |-> 0]
  /\ hist = <<>>
  /\ owned = {}
  /\ nwrites = 0
  /\ fault = FALSE

\* a call of arena a's allocate(sz), made directly (h = 0) or through handle h
AllocateCall(h, a, sz) ==
  /\ Running(a)
  /\ LET r == allocate(View(a), a, sz, TRUE)
     IN \/ /\ Commit(a, r)
           /\ hist' = Append(hist, Entry(h, a, "allocate", sz, 0, NULL, 0, r, TRUE, FALSE))
           /\ owned' = owned \cup {Len(hist) + 1}
           /\ UNCHANGED <<status, base, ctor, nwrites, fault>>
        \/ /\ r.ub
           /\ Trap(h, a, "allocate", sz, 0, NULL, 0, r, FALSE)

AllocateVia(h, a, sz) == Len(hist) < MaxCalls /\ AllocateCall(h, a, sz)

\* a call of arena a's allocate(sz) during which malloc returns NULL
AllocateNoMem(a, sz) ==
  /\ Live(a)
  /\ LET r == allocate(View(a), a, sz, FALSE)
     IN /\ r.path # "bump"
        /\ \/ /\ Commit(a, r)
              /\ hist' = Append(hist, Entry(0, a, "allocate", sz, 0, NULL, 0, r, TRUE, TRUE))
              /\ owned' = owned \cup {Len(hist) + 1}
              /\ UNCHANGED <<status, base, ctor, nwrites, fault>>
           \/ Trap(0, a, "allocate", sz, 0, NULL, 0, r, TRUE)

\* the region the caller holds from call i (i = 0: the null pointer, of size 0)
HeldPtr(i) == IF i = 0 THEN NULL ELSE hist[i].ret
HeldSize(i) == IF i = 0 THEN 0 ELSE hist[i].size
Held(a) == {i \in owned : hist[i].arena = a}

\* a call of arena a's reallocate(newsize, p, size) on a region the caller holds
ReallocateVia(h, a, newsize, i) ==
  /\ Live(a)
  /\ i \in Held(a) \cup {0}
  /\ LET r == reallocate(View(a), a, newsize, HeldPtr(i), HeldSize(i), TRUE)
     IN \/ /\ Commit(a, r)
           /\ hist' = Append(hist, Entry(h, a, "reallocate", newsize, i, HeldPtr(i),
                                         HeldSize(i), r, TRUE, FALSE))
           /\ owned' = (owned \ {i}) \cup {Len(hist) + 1}
           /\ UNCHANGED <<status, base, ctor, nwrites, fault>>
        \/ /\ r.ub
           /\ Trap(h, a, "reallocate", newsize, i, HeldPtr(i), HeldSize(i), r, FALSE)

\* a call of arena a's deallocate(p, size) on a region the caller holds
DeallocateVia(h, a, i) ==
  /\ Live(a)
  /\ i \in Held(a)
  /\ LET r == [v |-> deallocate(View(a), a, HeldPtr(i), HeldSize(i)),
               ret |-> NULL, path |-> "none"]
     IN /\ Commit(a, r)
        /\ hist' = Append(hist, Entry(h, a, "deallocate", HeldSize(i), i, HeldPtr(i),
                                      HeldSize(i), r, FALSE, FALSE))
  /\ owned' = owned \ {i}
  /\ UNCHANGED <<status, base, ctor, nwrites, fault>>

\* the caller writes the first and the last byte of the region it was handed last
Write ==
  /\ ~fault
  /\ nwrites < MaxWrites
  /\ Len(hist) \in owned
  /\ LET e == hist[Len(hist)]
     IN /\ status[e.arena] = "live"
        /\ e.size >= 1
        /\ marked' = marked \cup {<<e.ret.blk, e.ret.off>>,
                                   <<e.ret.blk, e.ret.off + e.size - 1>>}
  /\ nwrites' = nwrites + 1
  /\ UNCHANGED <<heap, mlog, segment, allocated, status, base, ctor, hist, owned, fault>>

\* arena a is destroyed
Destroy(a) ==
  /\ ~fault
  /\ status[a] = "live"
  /\ LET r == [v |-> destroy(View(a), a), ret |-> NULL, path |-> "none"]
     IN /\ Commit(a, r)
        /\ hist' = Append(hist, Entry(0, a, "destroy", 0, 0, NULL, 0, r, FALSE, FALSE))
  /\ status' = [status EXCEPT ![a] = "destroyed"]
  /\ UNCHANGED <<base, ctor, owned, nwrites, fault>>

\* left = right between two arena_allocator instances
Assign(left, right) ==
  /\ Live(left)
  /\ status[right] = "live"
  /\ LET r == [v |-> assign(View(left), View(right)), ret |-> NULL, path |-> "none"]
     IN /\ Commit(left, r)
        /\ hist' = Append(hist, Entry(0, left, "assign", 0, right, NULL, 0, r, FALSE, FALSE))
  /\ UNCHANGED <<status, base, ctor, owned, nwrites, fault>>

\* one of the allocate calls that fill the segments of arena 1
AllocateFill(sz) == Len(hist) < MaxFillCalls /\ AllocateCall(0, 1, sz)

\* calls made on the arena itself
Allocate(a, sz) == AllocateVia(0, a, sz)
Reallocate(a, newsize, i) == ReallocateVia(0, a, newsize, i)
Deallocate(a, i) == DeallocateVia(0, a, i)

\* shared_allocator(base_allocator &b) : base(b), for every handle: the handles
\* are constructed over the arenas in turn, so that the first and the last handle
\* share an arena and every other arena has one handle
InitShared ==
  /\ base = [h \in Handles |-> ((h - 1) % NumArenas) + 1]
  /\ ctor = base
  /\ heap = <<>>
  /\ mlog = <<>>
  /\ segment = [a \in Arenas |-> 0]
  /\ allocated = [a \in Arenas |-> 0]
  /\ status = [a \in Arenas |-> "live"]
  /\ marked = {}
  /\ hist = <<>>
  /\ owned = {}
  /\ nwrites = 0
  /\ fault = FALSE

SharedLive(h) == base[h] # 0 /\ Len(hist) < MaxSharedCalls

\* shared_allocator::allocate, deallocate, reallocate: forwarded to base
SharedAllocate(h, sz) == SharedLive(h) /\ AllocateVia(h, base[h], sz)
SharedReallocate(h, newsize, i) == SharedLive(h) /\ ReallocateVia(h, base[h], newsize, i)
SharedDeallocate(h, i) == SharedLive(h) /\ DeallocateVia(h, base[h], i)

\* shared_allocator::operator=: left = right
SharedAssign(left, right) ==
  /\ ~fault
  /\ SharedLive(left)
  /\ base[right] # 0
  /\ base' = AssignBase(base, left, right)
  /\ hist' = Append(hist, Entry(left, base[left], "assign", 0, right, NULL, 0,
                                [v |-> View(base[left]), ret |-> NULL, path |-> "none"],
                                FALSE, FALSE))
  /\ UNCHANGED <<heap, mlog, segment, allocated, status, marked, ctor, owned,
                 nwrites, fault>>

\* one arena_allocator over malloc_allocator, malloc always succeeding
Next ==
  \/ \E sz \in Sizes : Allocate(1, sz)
  \/ \E sz \in NewSizes, i \in 0 .. MaxCalls : Reallocate(1, sz, i)
  \/ \E i \in 1 .. MaxCalls : Deallocate(1, i)
  \/ Write
  \/ Destroy(1)

Spec == Init /\ [][Next]_vars

\* the same, with malloc failing at will
NextNoMem ==
  \/ Next
  \/ \E sz \in Sizes : AllocateNoMem(1, sz)

SpecNoMem == Init /\ [][NextNoMem]_vars

\* shared_allocator handles over the arenas
NextShared ==
  \/ \E h \in Handles, sz \in SharedSizes : SharedAllocate(h, sz)
  \/ \E h \in Handles, i \in 1 .. MaxSharedCalls : SharedReallocate(h, arena_size, i)
  \/ \E h \in Handles, i \in 1 .. MaxSharedCalls : SharedDeallocate(h, i)
  \/ \E left \in Handles : \E right \in Handles \ {left} : SharedAssign(left, right)

SpecShared == InitShared /\ [][NextShared]_vars

\* one arena_allocator filled by allocate calls
NextFill == \E sz \in FillSizes : AllocateFill(sz)

SpecFill == Init /\ [][NextFill]_vars

\* several arena_allocator instances over malloc_allocator, assigned to one another
NextAssign ==
  \/ \E a \in Arenas, sz \in AssignSizes : Allocate(a, sz)
  \/ \E i \in 1 .. MaxCalls : Reallocate(1, 1000, i)
  \/ \E i \in 1 .. MaxCalls : Deallocate(1, i)
  \/ \E left \in Arenas : \E right \in Arenas \ {left} : Assign(left, right)
  \/ \E a \in Arenas : Destroy(a)

SpecAssign == Init /\ [][NextAssign]_vars

-----------------------------------------------------------------------------
\* helpers of the properties

\* block b was obtained from the backing allocator by arena a, according to log lg
Obtained(lg, a, b) ==
  \E m \in DOMAIN lg : lg[m].op = "allocate" /\ lg[m].by = a /\ lg[m].blk = b /\ b # 0

\* [reg, reg + n) lies in the data area of one segment arena a obtained
InData(e) ==
  /\ Obtained(e.post.mlog, e.arena, e.ret.blk)
  /\ e.ret.off >= HeaderSize
  /\ e.ret.off + e.size <= e.post.heap[e.ret.blk].bytes

\* the calls so far are allocate calls only
OnlyAllocates == \A i \in DOMAIN hist : hist[i].op = "allocate" /\ hist[i].returned

\* ... each of a size up to the usable capacity of a segment
SmallAllocates == OnlyAllocates /\ \A i \in DOMAIN hist : hist[i].size <= arena_size

\* what a call leaves alone when it changes nothing of the arena
SameArena(e) ==
  /\ e.post.segment = e.pre.segment
  /\ e.post.allocated = e.pre.allocated
  /\ e.post.heap = e.pre.heap
  /\ e.post.mlog = e.pre.mlog

\* C1: every allocate call, whatever the size and also the first one on an empty
\* arena, returns a region of at least size bytes inside the data area of one
\* single segment that the arena obtained from the backing allocator.
C1_AllocateWithinSegment ==
  OnlyAllocates => \A i \in DOMAIN hist : InData(hist[i])

\* C2: on a fresh arena, allocate calls of sizes up to the usable capacity return
\* regions [address, address + size) of which no two overlap.
C2_NoOverlap ==
  SmallAllocates =>
    \A i, j \in DOMAIN hist :
      i < j => ~Overlap(hist[i].ret, hist[i].size, hist[j].ret, hist[j].size)

C2_Witness ==
  /\ SmallAllocates
  /\ \E i, j, k \in DOMAIN hist :
       /\ i < j
       /\ hist[i].size >= 1
       /\ hist[j].size >= 1
       /\ hist[i].ret.blk = hist[j].ret.blk
       /\ hist[k].ret.blk # hist[i].ret.blk

\* C3 as stated: on a fresh arena, with sizes up to the usable capacity and size 0
\* included, of two calls that return memory in the same segment the later one
\* returns a strictly greater address.
C3_StrictlyIncreasing ==
  SmallAllocates =>
    \A i, j \in DOMAIN hist :
      (i < j /\ hist[i].ret.blk = hist[j].ret.blk) => hist[j].ret.off > hist[i].ret.off

\* C3 amended: the later address is never smaller than the earlier one, and it is
\* strictly greater when the earlier call asked for at least one byte.
C3_IncreasingAmended ==
  SmallAllocates =>
    \A i, j \in DOMAIN hist :
      (i < j /\ hist[i].ret.blk = hist[j].ret.blk) =>
        /\ hist[j].ret.off >= hist[i].ret.off
        /\ hist[i].size >= 1 => hist[j].ret.off > hist[i].ret.off

C3_Witness ==
  /\ SmallAllocates
  /\ \E i, j, k \in DOMAIN hist :
       /\ i < j /\ j < k
       /\ hist[i].ret.blk = hist[k].ret.blk
       /\ hist[j].ret.blk = hist[k].ret.blk
       /\ hist[i].size >= 1
       /\ hist[j].size = 0
       /\ hist[k].ret = hist[j].ret

\* a call of allocate whose rounded size is at least the usable capacity, made
\* when a head segment exists
LargeCall(e) ==
  e.op = "allocate" /\ e.pre.segment # 0 /\ RoundUp(e.size) >= arena_size

\* a call of allocate whose rounded size is below the usable capacity
SmallCall(e) ==
  e.op = "allocate" /\ e.returned /\ RoundUp(e.size) < arena_size

\* C4: with a head segment, an allocate whose rounded size is at least the usable
\* capacity leaves the head pointer and the cursor as they were, and the next
\* small allocate that fits in the head is placed right after the (rounded)
\* region of the last small allocate made before the large one.
C4_LargeKeepsHead ==
  /\ \A i \in DOMAIN hist :
       LargeCall(hist[i]) =>
         /\ hist[i].post.segment = hist[i].pre.segment
         /\ hist[i].post.allocated = hist[i].pre.allocated
  /\ \A k, j \in DOMAIN hist :
       ( /\ k + 1 < j
         /\ SmallCall(hist[k])
         /\ \A m \in k + 1 .. j - 1 : LargeCall(hist[m])
         /\ SmallCall(hist[j])
         /\ hist[j].pre.segment # 0
         /\ hist[j].pre.allocated + RoundUp(hist[j].size) <= arena_size )
       => hist[j].ret = [blk |-> hist[k].ret.blk,
                         off |-> (hist[k].ret.off + RoundUp(hist[k].size)) % SizeMod]

C4_Witness ==
  \E k \in DOMAIN hist :
    /\ k + 2 \in DOMAIN hist
    /\ SmallCall(hist[k])
    /\ hist[k].size >= 1
    /\ LargeCall(hist[k + 1])
    /\ hist[k + 1].returned
    /\ RoundUp(hist[k + 1].size) = arena_size
    /\ SmallCall(hist[k + 2])
    /\ hist[k + 2].ret.blk = hist[k].ret.blk

\* C5: a growing reallocate (new_size > old_size) returns a region of at least
\* new_size bytes, disjoint from the old region, whose first old_size bytes equal
\* the content at p when the call was made; the old region is left unmodified.
C5_GrowCopies ==
  \A i \in DOMAIN hist :
    LET e == hist[i] IN
    (e.op = "reallocate" /\ e.returned /\ e.size > e.oldsize) =>
      /\ InData(e)
      /\ ~Overlap(e.ret, e.size, e.p, e.oldsize)
      /\ \A k \in 0 .. e.oldsize - 1 :
           /\ <<e.ret.blk, e.ret.off + k>> \in e.post.marked
                <=> <<e.p.blk, e.p.off + k>> \in e.pre.marked
           /\ <<e.p.blk, e.p.off + k>> \in e.post.marked
                <=> <<e.p.blk, e.p.off + k>> \in e.pre.marked

\* C6: a reallocate with new_size <= old_size returns exactly p and changes
\* nothing: segment chain, cursor, memory contents and the calls made to the
\* backing allocator are as before the call.
C6_ShrinkKeeps ==
  \A i \in DOMAIN hist :
    LET e == hist[i] IN
    (e.op = "reallocate" /\ e.size <= e.oldsize) =>
      /\ e.returned
      /\ e.ret = e.p
      /\ SameArena(e)
      /\ e.post.marked = e.pre.marked

C6_Witness ==
  \E i \in DOMAIN hist :
    /\ hist[i].op = "reallocate"
    /\ hist[i].from # 0
    /\ hist[i].size = hist[i].oldsize
    /\ hist[i].size >= 1
    /\ hist[i].pre.marked # {}
    /\ hist[i].ret = hist[i].p

\* the entries of the backing allocator's log made by arena a
Requests(a) ==
  {m \in DOMAIN mlog : mlog[m].op = "allocate" /\ mlog[m].by = a /\ mlog[m].blk # 0}
Releases(a) ==
  {m \in DOMAIN mlog : mlog[m].op = "deallocate" /\ mlog[m].by = a}

\* C7: over the lifetime of an arena the backing allocator's deallocate is called
\* for no segment before destruction, and by destruction exactly once per
\* segment obtained, with the size that was requested for that segment.
C7_ReleaseOnce ==
  \A a \in Arenas :
    /\ status[a] = "live" => Releases(a) = {}
    /\ status[a] = "destroyed" =>
         /\ Cardinality(Releases(a)) = Cardinality(Requests(a))
         /\ \A g \in Requests(a) :
              LET rs == {r \in Releases(a) : mlog[r].blk = mlog[g].blk}
              IN /\ Cardinality(rs) = 1
                 /\ \A r \in rs : mlog[r].size = mlog[g].size /\ r > g

C7_Witness ==
  /\ status[1] = "destroyed"
  /\ \E g, h \in Requests(1) : mlog[g].size # mlog[h].size
  /\ \E i \in DOMAIN hist : hist[i].op = "reallocate" /\ hist[i].size > hist[i].oldsize
  /\ \E i \in DOMAIN hist : hist[i].op = "deallocate"

\* C8: deallocate is a no-op: it leaves the segment chain and the cursor alone,
\* calls the backing allocator not at all, and no later allocate or reallocate
\* on the arena returns a region overlapping the deallocated one.
C8_DeallocateNoReuse ==
  \A d \in DOMAIN hist :
    hist[d].op = "deallocate" =>
      /\ SameArena(hist[d])
      /\ \A j \in DOMAIN hist :
           ( /\ j > d
             /\ hist[j].op \in {"allocate", "reallocate"}
             /\ hist[j].returned
             /\ hist[j].arena = hist[d].arena )
           => ~Overlap(hist[d].p, hist[d].size, hist[j].ret, hist[j].size)

\* C9: when the backing allocator fails to supply the segment, the allocate call
\* has made one request, hands no region to the caller and leaves the segment
\* chain and the cursor as they were.
C9_FailedRequestLeavesArena ==
  \A i \in DOMAIN hist :
    LET e == hist[i] IN
    e.failed =>
      /\ Len(e.post.mlog) = Len(e.pre.mlog) + 1
      /\ ~e.returned
      /\ e.post.segment = e.pre.segment
      /\ e.post.allocated = e.pre.allocated
      /\ e.post.heap = e.pre.heap

\* C10: two shared_allocator values compare equal exactly when they were
\* constructed over the same base instance, and != is the negation of ==,
\* whatever calls and assignments were made on the handles.
C10_EqualIffSameBase ==
  \A l, r \in Handles :
    (base[l] # 0 /\ base[r] # 0) =>
      /\ Eq(l, r) <=> ctor[l] = ctor[r]
      /\ Neq(l, r) <=> ~Eq(l, r)

C10_Witness ==
  \E i, j \in DOMAIN hist :
    /\ i < j
    /\ hist[i].op = "assign"
    /\ ctor[hist[i].via] # ctor[hist[i].from]
    /\ hist[j].op = "allocate"
    /\ hist[j].via = hist[i].via
    /\ segment[ctor[hist[i].via]] # segment[ctor[hist[i].from]]

\* the last call before call j that was made on the arena of call j (0: none)
PrevOn(j) ==
  LET before == {i \in 1 .. j - 1 : hist[i].arena = hist[j].arena}
  IN IF before = {} THEN 0 ELSE CHOOSE i \in before : \A k \in before : k <= i

\* call e had the result and the effect of the same call made on arena a itself
AsDirect(e, a) ==
  /\ e.arena = a
  /\ e.op = "allocate" =>
       LET r == allocate(e.pre, a, e.size, TRUE)
       IN e.returned => (e.ret = r.ret /\ e.post = r.v)
  /\ e.op = "reallocate" =>
       LET r == reallocate(e.pre, a, e.size, e.p, e.oldsize, TRUE)
       IN e.returned => (e.ret = r.ret /\ e.post = r.v)
  /\ e.op = "deallocate" => e.post = deallocate(e.pre, a, e.p, e.oldsize)

ChainSet(a) == {Chain(heap, segment[a])[k] : k \in DOMAIN Chain(heap, segment[a])}

\* the releases of block b made to the backing allocator
ReleasesOf(b) == {m \in DOMAIN mlog : mlog[m].op = "deallocate" /\ mlog[m].blk = b}

\* the last call made on arena a (0: none)
LastOn(a) ==
  LET on == {i \in DOMAIN hist : hist[i].arena = a}
  IN IF on = {} THEN 0 ELSE CHOOSE i \in on : \A k \in on : k <= i

\* C12: an assignment a = b between two arena_allocator instances leaves a's
\* chain and cursor, the segments and the calls made to the backing allocator as
\* they were; every arena's chain and cursor are what the last call on that very
\* arena left, so b keeps its own; no segment is in the chains of two arenas;
\* no segment is released twice, and once its arena is destroyed a segment has
\* been released exactly once.
C12_AssignChangesNothing ==
  /\ \A i \in DOMAIN hist :
       (hist[i].op = "assign" /\ hist[i].via = 0) => hist[i].post = hist[i].pre
  /\ \A a \in Arenas :
       /\ segment[a] = IF LastOn(a) = 0 THEN 0 ELSE hist[LastOn(a)].post.segment
       /\ allocated[a] = IF LastOn(a) = 0 THEN 0 ELSE hist[LastOn(a)].post.allocated
  /\ \A a, b \in Arenas : a # b => ChainSet(a) \cap ChainSet(b) = {}
  /\ \A m \in DOMAIN mlog :
       mlog[m].op = "allocate" =>
         /\ Cardinality(ReleasesOf(mlog[m].blk)) <= 1
         /\ status[mlog[m].by] = "destroyed" => Cardinality(ReleasesOf(mlog[m].blk)) = 1

C12_Witness ==
  /\ \A a \in Arenas : status[a] = "destroyed"
  /\ \E i \in DOMAIN hist :
       /\ hist[i].op = "assign"
       /\ hist[i].pre.segment # 0
       /\ \E j \in 1 .. i - 1 : hist[j].arena = hist[i].from /\ hist[j].op = "allocate"
       /\ hist[i].pre.segment # segment[hist[i].from]
  /\ \A a \in Arenas : ReleasesOf(segment[a]) # {}

\* C13: whenever an arena has a head segment, its cursor is at most the usable
\* capacity of the head segment: allocated <= segmentsize - sizeof(Segment).
C13_CursorWithinCapacity ==
  \A a \in Arenas : segment[a] # 0 => allocated[a] <= arena_size

\* a call of allocate whose rounded size is below the usable capacity
SmallRequest(e) == e.op = "allocate" /\ RoundUp(e.size) < arena_size

\* the head segment has room for the call: allocated + size <= capacity, the sum
\* taken in size_t arithmetic as line 124 takes it
HeadHasRoom(e) ==
  /\ e.pre.segment # 0
  /\ (e.pre.allocated + RoundUp(e.size)) % SizeMod <= arena_size

\* the blocks that exist before call e are after it as they were
OldBlocksKept(e) ==
  /\ Len(e.post.heap) >= Len(e.pre.heap)
  /\ \A b \in DOMAIN e.pre.heap : e.post.heap[b] = e.pre.heap[b]

\* the four allocate(16) calls on an empty arena
FourSixteens ==
  /\ Len(hist) >= 4
  /\ \A i \in 1 .. 4 : hist[i].op = "allocate" /\ hist[i].size = 16 /\ hist[i].arena = 1

C15_LargeSplice ==
  \A j \in DOMAIN hist :
    LET e == hist[j]
        new_segment == Len(e.pre.heap) + 1
    IN LargeCall(e) =>
         /\ e.returned
         /\ e.post.mlog = Append(e.pre.mlog,
                                 [op |-> "allocate", by |-> e.arena, blk |-> new_segment,
                                  size |-> HeaderSize + RoundUp(e.size)])
         /\ Len(e.post.heap) = new_segment
         /\ e.post.heap[new_segment].bytes = HeaderSize + RoundUp(e.size)
         /\ e.post.heap[new_segment].next = e.pre.heap[e.pre.segment].next
         /\ e.post.heap[e.pre.segment].next = new_segment
         /\ e.post.segment = e.pre.segment
         /\ e.ret = [blk |-> new_segment, off |-> HeaderSize]

\* the bytes arena a requested from the backing allocator for block b
RequestedFor(a, b) == {mlog[m].size : m \in {g \in Requests(a) : mlog[g].blk = b}}

\* C16: before teardown every segment in an arena's chain has a header size field
\* equal to the number of bytes requested from the backing allocator when it was
\* obtained: segmentsize for a segment of the new-head path, the bytes requested
\* at line 118 for a dedicated segment; the field of a block stays what it was
\* when the block was created, whatever call is made.
C16_SizeFieldIsRequest ==
  /\ \A a \in Arenas :
       (~fault /\ status[a] = "live") =>
         \A b \in ChainSet(a) : RequestedFor(a, b) = {heap[b].size}
  /\ \A j \in DOMAIN hist :
       LET e == hist[j] IN
       /\ \A b \in DOMAIN e.pre.heap : e.post.heap[b].size = e.pre.heap[b].size
       /\ (e.returned /\ e.path = "head") =>
            /\ e.post.heap[e.ret.blk].size = segmentsize
            /\ heap[e.ret.blk].size = segmentsize
       /\ (e.returned /\ e.path = "large") =>
            /\ e.post.heap[e.ret.blk].size = LargeRequest(RoundUp(e.size))
            /\ heap[e.ret.blk].size = LargeRequest(RoundUp(e.size))

C16_Witness ==
  /\ ~fault
  /\ status[1] = "live"
  /\ \E i, j, k \in DOMAIN hist :
       /\ i < j /\ j < k
       /\ hist[i].path = "head"
       /\ hist[j].path = "large"
       /\ hist[j].size = 1000
       /\ hist[k].path = "head"
       /\ {hist[i].ret.blk, hist[j].ret.blk, hist[k].ret.blk} \subseteq ChainSet(1)
       /\ heap[hist[j].ret.blk].size = 1000 + HeaderSize

\* the size call e of allocate used after line 114, read off its effect: the
\* cursor set at line 132, the advance of the cursor at line 135, the bytes
\* requested at line 118 less the header
EffectiveSize(e) ==
  IF e.path = "head" THEN e.post.allocated
  ELSE IF e.path = "bump" THEN (e.post.allocated - e.pre.allocated + SizeMod) % SizeMod
  ELSE (e.post.mlog[Len(e.post.mlog)].size - HeaderSize + SizeMod) % SizeMod

\* C17: for every requested size of the size type, the size allocate goes on with
\* is the least multiple of the word size that is greater than or equal to the
\* requested size; it is never smaller than the requested size.
C17_RoundsUp ==
  \A j \in DOMAIN hist :
    LET e == hist[j] IN
    (e.op = "allocate" /\ e.returned) =>
      /\ EffectiveSize(e) % WordSize = 0
      /\ EffectiveSize(e) >= e.size
      /\ EffectiveSize(e) < e.size + WordSize

\* the chain from s ends at NULL within n links
RECURSIVE EndsWithin(_, _, _)
EndsWithin(hp, s, n) ==
  IF s = 0 THEN TRUE
  ELSE IF n = 0 \/ s \notin DOMAIN hp THEN FALSE
  ELSE EndsWithin(hp, hp[s].next, n - 1)

\* the segments of the chain from s in heap hp, as a set
SegmentsFrom(hp, s) == {Chain(hp, s)[k] : k \in DOMAIN Chain(hp, s)}

\* C18: before teardown the chain of an arena, followed from the head, ends at
\* NULL, holds no segment twice and holds exactly the segments the arena
\* obtained from the backing allocator; every segment in the chain before an
\* allocate, reallocate, deallocate or assignment is in the chain after it.
C18_ChainHoldsAllSegments ==
  /\ \A a \in Arenas :
       (~fault /\ status[a] = "live") =>
         /\ EndsWithin(heap, segment[a], Len(heap))
         /\ Len(Chain(heap, segment[a])) = Cardinality(ChainSet(a))
         /\ ChainSet(a) = {mlog[m].blk : m \in Requests(a)}
         /\ Cardinality(ChainSet(a)) = Cardinality(Requests(a))
  /\ \A j \in DOMAIN hist :
       LET e == hist[j] IN
       (e.returned \/ e.op \in {"deallocate", "assign"}) =>
         /\ EndsWithin(e.post.heap, e.post.segment, Len(e.post.heap))
         /\ SegmentsFrom(e.pre.heap, e.pre.segment)
              \subseteq SegmentsFrom(e.post.heap, e.post.segment)

C18_Witness ==
  /\ ~fault
  /\ status[1] = "live"
  /\ Cardinality(ChainSet(1)) >= 2
  /\ \E b \in ChainSet(1) : heap[b].size # segmentsize
  /\ \E j \in DOMAIN hist :
       /\ hist[j].op = "assign"
       /\ hist[j].arena = 1
       /\ Cardinality(SegmentsFrom(hist[j].pre.heap, hist[j].pre.segment)) >= 2
       /\ ChainSet(hist[j].from) # ChainSet(1)

\* C19: a head segment is a full-size segment, of segmentsize bytes and with
\* recorded size segmentsize; the segment a dedicated-segment call obtained is
\* not the head after the call and is not the head in any later state.
C19_HeadIsFullSize ==
  /\ \A a \in Arenas :
       segment[a] # 0 =>
         /\ heap[segment[a]].size = segmentsize
         /\ heap[segment[a]].bytes = segmentsize
  /\ \A j \in DOMAIN hist :
       LET e == hist[j] IN
       (e.returned /\ e.path = "large") =>
         /\ e.post.segment # e.ret.blk
         /\ segment[e.arena] # e.ret.blk

C19_Witness ==
  \E i, j \in DOMAIN hist :
    /\ i < j
    /\ hist[i].returned
    /\ hist[i].path = "large"
    /\ heap[hist[i].ret.blk].size # segmentsize
    /\ hist[j].path = "head"
    /\ segment[1] = hist[j].ret.blk
    /\ heap[segment[1]].next # 0

\* C20: the cursor of every arena is a multiple of the word size, and every
\* address returned by allocate or by a growing reallocate is at an offset from
\* the start of its segment that is a multiple of the word size.
C20_WordAligned ==
  /\ \A a \in Arenas : allocated[a] % WordSize = 0
  /\ \A j \in DOMAIN hist :
       LET e == hist[j] IN
       ( /\ e.returned
         /\ \/ e.op = "allocate"
            \/ e.op = "reallocate" /\ e.size > e.oldsize )
       => /\ e.ret.off % WordSize = 0
          /\ e.post.allocated % WordSize = 0

C20_Witness ==
  \E i, j \in DOMAIN hist :
    /\ i < j
    /\ hist[i].op = "allocate"
    /\ hist[i].size = 3
    /\ hist[j].returned
    /\ hist[j].path = "bump"
    /\ hist[j].ret.blk = hist[i].ret.blk
    /\ hist[j].ret.off = hist[i].ret.off + WordSize
    /\ allocated[1] > 0

=============================================================================
